---- MODULE Spec2Model ----
(***************************************************************************)
(* A model of the receiptly-api server (src/src/index.ts): the bearer      *)
(* token gate, the receipt CSV export handler, the receipt analysis        *)
(* handler, and the pure text helpers they use (csvEscape, formatNumber,   *)
(* formatDate, extractJson).                                               *)
(*                                                                         *)
(* Text is a sequence of one-character strings, so that prefix tests,      *)
(* slicing, trimming and the regular expressions of the source are         *)
(* computed character by character.  A JavaScript value is a tagged        *)
(* record (Undefined, Null, Str(s), Num(x)).                               *)
(***************************************************************************)
EXTENDS Integers, Sequences, FiniteSets, TLC

VARIABLES
    env,        \* process.env and the collaborators built from it at startup
    store,      \* the rows of the external "receipts" table
    pc,         \* per request: where its handler stands
    request,    \* per request: what the client sent
    userId,     \* per request: the subject authenticate returned
    queries,    \* per request: the store queries issued (their filters)
    modelCalls, \* per request: the generateContent calls issued
    answers,    \* per request: what the store or the model answered
    reply,      \* per request: the response sent
    log,        \* per request: what the handler wrote to the server log
    arg,        \* input of the helper under test (helper specifications)
    result      \* its output

vars == <<env, store, pc, request, userId, queries, modelCalls, answers, reply, log, arg,
          result>>

(***************************************************************************)
(* Bounds of the model.                                                    *)
(***************************************************************************)
NumRequests == 2

Requests == 1..NumRequests

(***************************************************************************)
(* Text helpers.                                                           *)
(***************************************************************************)
Rep(c, n) == [i \in 1..n |-> c]

StartsWith(s, p) == Len(s) >= Len(p) /\ SubSeq(s, 1, Len(p)) = p

\* the characters String.prototype.trim removes and \s matches
IsSpace(c) == c \in {" ", "\n", "\r", "\t"}

RECURSIVE TrimStart(_)
TrimStart(s) == IF s # <<>> /\ IsSpace(Head(s)) THEN TrimStart(Tail(s)) ELSE s

RECURSIVE TrimEnd(_)
TrimEnd(s) ==
    IF s # <<>> /\ IsSpace(s[Len(s)]) THEN TrimEnd(SubSeq(s, 1, Len(s) - 1)) ELSE s

Trim(s) == TrimEnd(TrimStart(s))

Has(s, c) == \E i \in 1..Len(s) : s[i] = c

\* Array.prototype.join
RECURSIVE Join(_, _)
Join(lines, sep) ==
    IF lines = <<>> THEN <<>>
    ELSE IF Len(lines) = 1 THEN lines[1]
    ELSE lines[1] \o sep \o Join(Tail(lines), sep)

(***************************************************************************)
(* JavaScript values.                                                      *)
(***************************************************************************)
Undefined == [t |-> "undefined"]
Null == [t |-> "null"]
Str(s) == [t |-> "string", s |-> s]
Num(x) == [t |-> "number", x |-> x]

\* ToBoolean of the values the handlers test
Truthy(v) ==
    CASE v.t = "undefined" -> FALSE
      [] v.t = "null" -> FALSE
      [] v.t = "string" -> v.s # <<>>
      [] v.t = "number" -> ~(v.x.k = "nan" \/ (v.x.k = "fin" /\ v.x.thou = 0))
      [] OTHER -> TRUE

(***************************************************************************)
(* JavaScript numbers.  A finite double of modest size is                  *)
(*   [k |-> "fin", neg, thou, err]: magnitude thou/1000, where err is the  *)
(*   sign of (the double - thou/1000), which decides a rounding tie;       *)
(* a large one is [k |-> "big", neg, coef, e10]: magnitude coef * 10^e10   *)
(*   (exactly representable for the values used);                          *)
(* and there are [k |-> "inf", neg] and [k |-> "nan"].                     *)
(***************************************************************************)
NaN == [k |-> "nan"]
Inf(neg) == [k |-> "inf", neg |-> neg]
Fin(neg, thou, err) == [k |-> "fin", neg |-> neg, thou |-> thou, err |-> err]
Big(neg, coef, e10) == [k |-> "big", neg |-> neg, coef |-> coef, e10 |-> e10]

Digits == <<"0", "1", "2", "3", "4", "5", "6", "7", "8", "9">>

IsDigit(c) == \E d \in 1..10 : Digits[d] = c

DigitVal(c) == (CHOOSE d \in 1..10 : Digits[d] = c) - 1

RECURSIVE NatToText(_)
NatToText(n) ==
    IF n < 10 THEN <<Digits[n + 1]>> ELSE NatToText(n \div 10) \o <<Digits[(n % 10) + 1]>>

RECURSIVE TextToNat(_)
TextToNat(s) ==
    IF s = <<>> THEN 0 ELSE 10 * TextToNat(SubSeq(s, 1, Len(s) - 1)) + DigitVal(s[Len(s)])

\* the thousandths below 1, ending in 5, whose nearest double lies below them
\* (IEEE 754 binary64): 0.015 is stored as 0.01499999..., 0.005 as 0.00500000...01
TieBelow ==
    {15, 45, 75, 105, 145, 155, 175, 185, 205, 215, 235, 245, 285, 295, 305, 345,
     355, 365, 415, 425, 435, 475, 485, 495, 565, 575, 585, 595, 605, 615, 695,
     705, 715, 725, 735, 745, 815, 825, 835, 845, 855, 865, 945, 955, 965, 975,
     985, 995}

TieExact == {125, 375, 625, 875}

DoubleErr(thou) ==
    IF thou % 10 # 5 \/ thou >= 1000 \/ thou \in TieExact THEN 0
    ELSE IF thou \in TieBelow THEN -1 ELSE 1

\* the decimal exponent from which Number.prototype.toFixed and Number::toString
\* switch to exponent notation
ExpNotationFrom == 21

\* Number::toString (String(n) of a number)
NumberToString(x) ==
    CASE x.k = "nan" -> <<"N", "a", "N">>
      [] x.k = "inf" ->
            (IF x.neg THEN <<"-">> ELSE <<>>) \o <<"I", "n", "f", "i", "n", "i", "t", "y">>
      [] x.k = "big" ->
            (IF x.neg THEN <<"-">> ELSE <<>>)
            \o (IF x.e10 >= ExpNotationFrom
                THEN NatToText(x.coef) \o <<"e", "+">> \o NatToText(x.e10)
                ELSE NatToText(x.coef) \o Rep("0", x.e10))
      [] OTHER ->
            LET int == x.thou \div 1000
                fr == x.thou % 1000
                frText == IF fr % 100 = 0 THEN <<Digits[(fr \div 100) + 1]>>
                          ELSE IF fr % 10 = 0
                               THEN <<Digits[(fr \div 100) + 1], Digits[((fr \div 10) % 10) + 1]>>
                               ELSE <<Digits[(fr \div 100) + 1], Digits[((fr \div 10) % 10) + 1],
                                      Digits[(fr % 10) + 1]>>
            IN  (IF x.neg /\ x.thou # 0 THEN <<"-">> ELSE <<>>)
                \o NatToText(int)
                \o (IF fr = 0 THEN <<>> ELSE <<".">> \o frText)

\* Number.prototype.toFixed(2)
ToFixed2(x) ==
    CASE x.k \in {"nan", "inf"} -> NumberToString(x)
      [] x.k = "big" ->
            IF x.e10 >= ExpNotationFrom THEN NumberToString(x)
            ELSE NumberToString(x) \o <<".", "0", "0">>
      [] OTHER ->
            \* n: the integer with n/100 nearest the double; of two, the larger
            LET low == x.thou \div 10
                rest == x.thou % 10
                n == IF rest > 5 \/ (rest = 5 /\ x.err >= 0) THEN low + 1 ELSE low
                m == NatToText(n)
                padded == IF Len(m) <= 2 THEN Rep("0", 3 - Len(m)) \o m ELSE m
            IN  (IF x.neg /\ x.thou # 0 THEN <<"-">> ELSE <<>>)
                \o SubSeq(padded, 1, Len(padded) - 2) \o <<".">>
                \o SubSeq(padded, Len(padded) - 1, Len(padded))

InfinityText == <<"I", "n", "f", "i", "n", "i", "t", "y">>

\* the longest run of digits at the start of s
RECURSIVE DigitRun(_)
DigitRun(s) == IF s # <<>> /\ IsDigit(Head(s)) THEN <<Head(s)>> \o DigitRun(Tail(s)) ELSE <<>>

\* StringToNumber (Number(s) of a string) for text without exponent parts or
\* radix prefixes: trimmed; empty is 0; an optional sign, then Infinity or
\* digits with at most one point and at least one digit; anything else is NaN.
\* At most three fractional digits are kept, which covers every text of the
\* helper specification.
StringToNumber(s) ==
    LET t == Trim(s)
        signed == t # <<>> /\ Head(t) \in {"-", "+"}
        neg == t # <<>> /\ Head(t) = "-"
        body == IF signed THEN Tail(t) ELSE t
        int == DigitRun(body)
        afterInt == SubSeq(body, Len(int) + 1, Len(body))
        hasPoint == afterInt # <<>> /\ Head(afterInt) = "."
        fr == IF hasPoint THEN DigitRun(Tail(afterInt)) ELSE <<>>
        consumed == Len(int) + (IF hasPoint THEN 1 + Len(fr) ELSE 0)
        fr3 == SubSeq(fr \o <<"0", "0", "0">>, 1, 3)
        thou == 1000 * TextToNat(int) + TextToNat(fr3)
    IN  IF t = <<>> THEN Fin(FALSE, 0, 0)
        ELSE IF body = InfinityText THEN Inf(neg)
        ELSE IF consumed = Len(body) /\ Len(int) + Len(fr) > 0 /\ Len(fr) <= 3
             THEN Fin(neg, thou, DoubleErr(thou))
             ELSE NaN

\* Number(n)
ToNumber(v) ==
    CASE v.t = "undefined" -> NaN
      [] v.t = "null" -> Fin(FALSE, 0, 0)
      [] v.t = "string" -> StringToNumber(v.s)
      [] OTHER -> v.x

\* String(value) for the values the store returns
JsString(v) ==
    CASE v.t = "undefined" -> <<"u", "n", "d", "e", "f", "i", "n", "e", "d">>
      [] v.t = "null" -> <<"n", "u", "l", "l">>
      [] v.t = "string" -> v.s
      [] OTHER -> NumberToString(v.x)

(***************************************************************************)
(* The CSV field helpers.                                                  *)
(***************************************************************************)
\* s.replace(/"/g, '""')
RECURSIVE DoubleQuotes(_)
DoubleQuotes(s) ==
    IF s = <<>> THEN <<>>
    ELSE (IF Head(s) = "\"" THEN <<"\"", "\"">> ELSE <<Head(s)>>) \o DoubleQuotes(Tail(s))

\* /[",\n]/.test(s)
NeedsQuoting(s) == \E i \in 1..Len(s) : s[i] \in {"\"", ",", "\n"}

csvEscape(value) ==
    IF value.t \in {"null", "undefined"} THEN <<>>
    ELSE LET s == JsString(value)
         IN  IF NeedsQuoting(s) THEN <<"\"">> \o DoubleQuotes(s) \o <<"\"">> ELSE s

formatNumber(n) ==
    IF n.t \in {"null", "undefined"} \/ n = Str(<<>>) THEN <<>>
    ELSE LET num == ToNumber(n)
         IN  IF num.k = "nan" THEN <<>> ELSE ToFixed2(num)


\* the text toISOString gives for the timestamps the store holds (new Date(d)
\* parses the text and toISOString renders the instant in UTC); <<>> stands
\* for an invalid date
DateToISOString(d) ==
    IF d = Str(<<"2", "0", "2", "4", "-", "0", "3", "-", "0", "5", "T", "1", "0", ":", "1", "5",
                 ":", "0", "0", "+", "0", "0", ":", "0", "0">>)
    THEN <<"2", "0", "2", "4", "-", "0", "3", "-", "0", "5", "T", "1", "0", ":", "1", "5",
           ":", "0", "0", ".", "0", "0", "0", "Z">>
    ELSE IF d = Str(<<"2", "0", "2", "4", "-", "0", "3", "-", "0", "5", "T", "2", "3", ":", "3",
                      "0", ":", "0", "0", "-", "0", "5", ":", "0", "0">>)
    THEN <<"2", "0", "2", "4", "-", "0", "3", "-", "0", "6", "T", "0", "4", ":", "3", "0",
           ":", "0", "0", ".", "0", "0", "0", "Z">>
    ELSE <<>>

\* s.split(c)[0]
RECURSIVE SplitFirst(_, _)
SplitFirst(s, c) ==
    IF s = <<>> \/ Head(s) = c THEN <<>> ELSE <<Head(s)>> \o SplitFirst(Tail(s), c)

formatDate(d) ==
    IF ~Truthy(d) THEN <<>>
    ELSE LET iso == DateToISOString(d)
         IN  IF iso = <<>> THEN <<>> ELSE SplitFirst(iso, "T")

(***************************************************************************)
(* Responses and log entries.                                              *)
(***************************************************************************)
NoReply == [status |-> 0]

\* reply.status(code).send(object)
SendJson(status, body) ==
    [status |-> status, type |-> "application/json", disposition |-> <<>>, body |-> body]

LogEntry(level, msg, err) == [level |-> level, msg |-> msg, err |-> err]

(***************************************************************************)
(* The token gate.  A token is an opaque compact text; what jwt.verify     *)
(* makes of it is given by JwtTable: the key that signed it, whether it    *)
(* has expired, and its payload.                                           *)
(***************************************************************************)
BearerPrefix == <<"B", "e", "a", "r", "e", "r", " ">>

U1 == <<"u", "1">>
U2 == <<"u", "2">>

Secret1 == <<"k", "1">>
Secret2 == <<"k", "2">>

Payload(sub) == [t |-> "object", sub |-> sub]

JwtNames == {"jwt-u1", "jwt-u2", "jwt-expired", "jwt-forged", "jwt-nosub", "jwt-emptysub",
             "jwt-numsub", "jwt-text"}

JwtTable ==
    [n \in JwtNames |->
        CASE n = "jwt-u1" -> [key |-> Secret1, expired |-> FALSE, payload |-> Payload(Str(U1))]
          [] n = "jwt-u2" -> [key |-> Secret1, expired |-> FALSE, payload |-> Payload(Str(U2))]
          [] n = "jwt-expired" -> [key |-> Secret1, expired |-> TRUE, payload |-> Payload(Str(U1))]
          [] n = "jwt-forged" -> [key |-> Secret2, expired |-> FALSE, payload |-> Payload(Str(U1))]
          [] n = "jwt-nosub" -> [key |-> Secret1, expired |-> FALSE, payload |-> Payload(Undefined)]
          [] n = "jwt-emptysub" -> [key |-> Secret1, expired |-> FALSE, payload |-> Payload(Str(<<>>))]
          [] n = "jwt-numsub" ->
                [key |-> Secret1, expired |-> FALSE, payload |-> Payload(Num(Fin(FALSE, 7000, 0)))]
          [] OTHER -> [key |-> Secret1, expired |-> FALSE, payload |-> Str(<<"h", "i">>)]]

\* (as jwt.decode would do: the payload, with neither signature nor expiry checked)
JwtDecodeOnly(token, secret) ==
    IF token = <<>> THEN [ok |-> FALSE, err |-> "jwt must be provided"]
    ELSE IF ~(Len(token) = 1 /\ token[1] \in JwtNames) THEN [ok |-> FALSE, err |-> "jwt malformed"]
    ELSE [ok |-> TRUE, decoded |-> JwtTable[token[1]].payload]

\* jwt.verify(token, secret): the decoded payload, or a thrown error
JwtVerify(token, secret) ==
    IF token = <<>> THEN [ok |-> FALSE, err |-> "jwt must be provided"]
    ELSE IF ~(Len(token) = 1 /\ token[1] \in JwtNames) THEN [ok |-> FALSE, err |-> "jwt malformed"]
    ELSE LET e == JwtTable[token[1]]
         IN  IF e.key # secret THEN [ok |-> FALSE, err |-> "invalid signature"]
             ELSE IF e.expired THEN [ok |-> FALSE, err |-> "jwt expired"]
             ELSE [ok |-> TRUE, decoded |-> e.payload]

\* auth.startsWith("Bearer ")
\* (as it would be with the scheme compared without regard to case)
HasBearerPrefixAnyCase(auth) ==
    /\ Len(auth) >= Len(BearerPrefix)
    /\ auth[1] \in {"B", "b"}
    /\ SubSeq(auth, 2, Len(BearerPrefix)) = Tail(BearerPrefix)

HasBearerPrefix(auth) == StartsWith(auth, BearerPrefix)

\* authenticate(request, reply): the subject (Null when a response was sent),
\* the response sent and the log lines written.  Node lower-cases header
\* names, so headers["Authorization"] is always undefined.
authenticate(headers, jwtSecret) ==
    LET auth == IF Truthy(headers.authorization) THEN headers.authorization ELSE Undefined
    IN  IF ~Truthy(auth) \/ ~HasBearerPrefix(auth.s)
        THEN [sub |-> Null, log |-> <<>>,
              reply |-> SendJson(401, [error |-> "Missing Authorization Bearer token"])]
        ELSE LET token == Trim(SubSeq(auth.s, Len(BearerPrefix) + 1, Len(auth.s)))
             IN  IF ~Truthy(jwtSecret)
                 THEN [sub |-> Null, log |-> <<>>,
                       reply |-> SendJson(500,
                                    [error |-> "Server missing SUPABASE_JWT_SECRET env variable"])]
                 ELSE LET v == JwtVerify(token, jwtSecret.s)
                          sub == IF v.ok /\ v.decoded.t = "object" THEN v.decoded.sub
                                 ELSE Undefined
                      IN  IF ~v.ok
                          THEN [sub |-> Null,
                                log |-> <<LogEntry("info", "JWT verification failed", v.err)>>,
                                reply |-> SendJson(401, [error |-> "Invalid or expired token"])]
                          ELSE IF ~Truthy(sub) \/ sub.t # "string"
                          THEN [sub |-> Null, log |-> <<>>,
                                reply |-> SendJson(401,
                                             [error |-> "Invalid token: sub claim missing"])]
                          ELSE [sub |-> sub, log |-> <<>>, reply |-> NoReply]


(***************************************************************************)
(* The store: the rows of "receipts" with their nested receipt_items.      *)
(***************************************************************************)
\* the bounds of /^[0-9a-fA-F-]{32,36}$/
MinIdLen == 32
MaxIdLen == 36

IsIdChar(c) ==
    IsDigit(c) \/ c \in {"a", "b", "c", "d", "e", "f", "A", "B", "C", "D", "E", "F", "-"}

\* (as it would be with the upper bound left out of the quantifier)
IdShapeOkNoMax(id) ==
    /\ Len(id) >= MinIdLen
    /\ \A i \in 1..Len(id) : IsIdChar(id[i])

\* /^[0-9a-fA-F-]{32,36}$/.test(id)
IdShapeOk(id) ==
    /\ Len(id) >= MinIdLen
    /\ Len(id) <= MaxIdLen
    /\ \A i \in 1..Len(id) : IsIdChar(id[i])

IdA == Rep("a", MinIdLen)
IdB ==
    Rep("b", 8) \o <<"-">> \o Rep("b", 4) \o <<"-">> \o Rep("b", 4) \o <<"-">> \o Rep("b", 4)
    \o <<"-">> \o Rep("b", 12)

Item(name, quantity, price) == [name |-> name, quantity |-> quantity, price |-> price]

Array(a) == [t |-> "array", a |-> a]

RichRow(id, owner) ==
    [id |-> id, user_id |-> owner,
     merchant |-> Str(<<"C", "a", "f", "e">>),
     purchase_at |-> Str(<<"2", "0", "2", "4", "-", "0", "3", "-", "0", "5", "T", "2", "3", ":",
                           "3", "0", ":", "0", "0", "-", "0", "5", ":", "0", "0">>),
     total |-> Num(Fin(FALSE, 12500, 0)),
     currency |-> Str(<<"U", "S", "D">>),
     category |-> Str(<<"F", "o", "o", "d">>),
     receipt_items |->
        Array(<<Item(Str(<<"T", "e", "a">>), Num(Fin(FALSE, 2000, 0)), Num(Fin(FALSE, 3500, 0))),
                Item(Str(<<"A", ",", " ", "\"", "B", "\"">>), Null, Str(<<"1", ".", "0", "0", "5">>))>>)]

BareRow(id, owner) ==
    [id |-> id, user_id |-> owner, merchant |-> Null, purchase_at |-> Null, total |-> Null,
     currency |-> Null, category |-> Null, receipt_items |-> Null]

\* the contents the "receipts" table may have; id is its primary key
Stores ==
    {{},
     {RichRow(IdA, U1)},
     {BareRow(IdA, U2), RichRow(IdB, U1)}}

\* the errors a query may come back with
StoreErrors == {"connection refused"}

\* (as it would be without the owner filter)
ReceiptQueryByIdOnly(receiptId, user) ==
    [table |-> "receipts", eq |-> <<<<"id", receiptId>>>>]

\* supabase.from("receipts").select(...).eq("id", receiptId).eq("user_id", userId)
ReceiptQuery(receiptId, user) ==
    [table |-> "receipts", eq |-> <<<<"id", receiptId>>, <<"user_id", user>>>>]

\* the columns the select names
Select(row) ==
    [id |-> Str(row.id), merchant |-> row.merchant, purchase_at |-> row.purchase_at,
     total |-> row.total, currency |-> row.currency, category |-> row.category,
     receipt_items |-> row.receipt_items]

Matches(row, q) == \A i \in 1..Len(q.eq) : row[q.eq[i][1]] = q.eq[i][2]

\* what maybeSingle() resolves to when the store answers: the row, null when
\* none matches, an error when several do
MaybeSingle(rows, q) ==
    LET hit == {row \in rows : Matches(row, q)}
    IN  IF hit = {} THEN [data |-> Null, error |-> ""]
        ELSE IF Cardinality(hit) = 1
             THEN [data |-> Select(CHOOSE row \in hit : TRUE), error |-> ""]
             ELSE [data |-> Null, error |-> "multiple rows returned"]

(***************************************************************************)
(* The CSV document (index.ts 145-167).                                    *)
(***************************************************************************)
ItemLine(item) ==
    csvEscape(item.name) \o <<",">>
    \o csvEscape(IF item.quantity.t \in {"null", "undefined"} THEN Str(<<>>) ELSE item.quantity)
    \o <<",">> \o csvEscape(Str(formatNumber(item.price)))

CsvLines(data) ==
    LET items == IF data.receipt_items.t = "array" THEN data.receipt_items.a ELSE <<>>
    IN  << <<"M", "e", "r", "c", "h", "a", "n", "t", ",">> \o csvEscape(data.merchant),
           <<"P", "u", "r", "c", "h", "a", "s", "e", " ", "D", "a", "t", "e", ",">>
               \o csvEscape(Str(formatDate(data.purchase_at))),
           <<"T", "o", "t", "a", "l", ",">> \o csvEscape(Str(formatNumber(data.total))),
           <<"C", "u", "r", "r", "e", "n", "c", "y", ",">> \o csvEscape(data.currency),
           <<"C", "a", "t", "e", "g", "o", "r", "y", ",">> \o csvEscape(data.category),
           <<"R", "e", "c", "e", "i", "p", "t", " ", "I", "D", ",">> \o csvEscape(data.id),
           <<>>,
           <<"I", "t", "e", "m", "s">>,
           <<"N", "a", "m", "e", ",", "Q", "u", "a", "n", "t", "i", "t", "y", ",", "P", "r", "i",
             "c", "e">> >>
        \o [i \in 1..Len(items) |-> ItemLine(items[i])]

BuildCsv(data) == Join(CsvLines(data), <<"\n">>)

\* reply.header(...).header(...).send(csv)
SendCsv(receiptId, csv) ==
    [status |-> 200, type |-> "text/csv; charset=utf-8",
     disposition |-> <<"a", "t", "t", "a", "c", "h", "m", "e", "n", "t", ";", " ", "f", "i", "l",
                       "e", "n", "a", "m", "e", "=", "r", "e", "c", "e", "i", "p", "t", "_">>
                     \o receiptId \o <<".", "c", "s", "v">>,
     body |-> [csv |-> csv]]


(***************************************************************************)
(* The environment.                                                        *)
(***************************************************************************)
FullEnv ==
    [SUPABASE_URL |-> Str(<<"d", "b">>),
     SUPABASE_SERVICE_ROLE_KEY |-> Str(<<"r", "k">>),
     SUPABASE_JWT_SECRET |-> Str(Secret1),
     GEMINI_API_KEY |-> Str(<<"g", "k">>),
     GOOGLE_API_KEY |-> Str(<<"g", "k">>)]

Envs ==
    {FullEnv,
     [FullEnv EXCEPT !.SUPABASE_JWT_SECRET = Undefined],
     [FullEnv EXCEPT !.SUPABASE_URL = Undefined],
     [FullEnv EXCEPT !.GEMINI_API_KEY = Undefined],
     [FullEnv EXCEPT !.GEMINI_API_KEY = Undefined, !.GOOGLE_API_KEY = Str(<<>>)]}

\* const supabase = SUPABASE_URL && SUPABASE_SERVICE_ROLE_KEY ? createClient(...) : undefined
SupabaseClient(e) == Truthy(e.SUPABASE_URL) /\ Truthy(e.SUPABASE_SERVICE_ROLE_KEY)

(***************************************************************************)
(* GET /receipts/:id/export/csv                                            *)
(***************************************************************************)
\* Authorization header values: none, a lower-case scheme, and bearer tokens
AuthHeaders ==
    {Undefined,
     Str(<<"b", "e", "a", "r", "e", "r", " ", "jwt-u1">>),
     Str(BearerPrefix \o <<"jwt-u1">>),
     Str(BearerPrefix \o <<"jwt-u2">>),
     Str(BearerPrefix \o <<"jwt-expired">>)}

\* path ids: two well-formed ones, one too short, one too long, one with a
\* character that is no hexadecimal digit
PathIds ==
    {Str(IdA), Str(IdB), Str(Rep("a", MinIdLen - 1)), Str(Rep("a", MaxIdLen + 1)),
     Str(Rep("a", MinIdLen - 1) \o <<"g">>)}

ExportRequest(h, id) ==
    [kind |-> "export", headers |-> [authorization |-> h], params |-> [id |-> id]]

\* the handler up to its await of the store (index.ts 112-135)
ExportBegin(req, e) ==
    LET a == authenticate(req.headers, e.SUPABASE_JWT_SECRET)
        receiptId == req.params.id
    IN  IF ~Truthy(a.sub)
        THEN [pc |-> "done", userId |-> Null, queries |-> <<>>, log |-> a.log, reply |-> a.reply]
        ELSE IF ~Truthy(receiptId) \/ ~IdShapeOk(receiptId.s)
        THEN [pc |-> "done", userId |-> a.sub, queries |-> <<>>, log |-> a.log,
              reply |-> SendJson(400, [error |-> "Invalid receipt id format"])]
        ELSE IF ~SupabaseClient(e)
        THEN [pc |-> "done", userId |-> a.sub, queries |-> <<>>, log |-> a.log,
              reply |-> SendJson(500, [error |-> "Supabase client not initialized on server"])]
        ELSE [pc |-> "awaitStore", userId |-> a.sub,
              queries |-> <<ReceiptQuery(receiptId.s, a.sub.s)>>, log |-> a.log,
              reply |-> NoReply]

\* (as it would be with the store's error passed on to the caller)
ExportFinishLeaky(req, answer) ==
    IF answer.error # ""
    THEN [log |-> <<LogEntry("error", "Supabase query error", answer.error)>>,
          reply |-> SendJson(500, [error |-> "Database query failed", details |-> answer.error])]
    ELSE IF answer.data = Null
    THEN [log |-> <<>>, reply |-> SendJson(404, [error |-> "Receipt not found"])]
    ELSE [log |-> <<>>, reply |-> SendCsv(req.params.id.s, BuildCsv(answer.data))]

\* (as it would be if a missing row were reported as forbidden)
ExportFinishForbidden(req, answer) ==
    IF answer.error # ""
    THEN [log |-> <<LogEntry("error", "Supabase query error", answer.error)>>,
          reply |-> SendJson(500, [error |-> "Database query failed"])]
    ELSE IF answer.data = Null
    THEN [log |-> <<>>, reply |-> SendJson(403, [error |-> "Forbidden"])]
    ELSE [log |-> <<>>, reply |-> SendCsv(req.params.id.s, BuildCsv(answer.data))]

\* the handler from the store's answer on (index.ts 137-174)
ExportFinish(req, answer) ==
    IF answer.error # ""
    THEN [log |-> <<LogEntry("error", "Supabase query error", answer.error)>>,
          reply |-> SendJson(500, [error |-> "Database query failed"])]
    ELSE IF answer.data = Null
    THEN [log |-> <<>>, reply |-> SendJson(404, [error |-> "Receipt not found"])]
    ELSE [log |-> <<>>, reply |-> SendCsv(req.params.id.s, BuildCsv(answer.data))]

ExportStart(r) ==
    /\ pc[r] = "idle"
    /\ \E h \in AuthHeaders, id \in PathIds :
          LET req == ExportRequest(h, id)
              b == ExportBegin(req, env)
          IN  /\ request' = [request EXCEPT ![r] = req]
              /\ pc' = [pc EXCEPT ![r] = b.pc]
              /\ userId' = [userId EXCEPT ![r] = b.userId]
              /\ queries' = [queries EXCEPT ![r] = b.queries]
              /\ log' = [log EXCEPT ![r] = b.log]
              /\ reply' = [reply EXCEPT ![r] = b.reply]
    /\ modelCalls' = [modelCalls EXCEPT ![r] = <<>>]
    /\ UNCHANGED <<env, store, answers, arg, result>>

ExportResume(r) ==
    /\ pc[r] = "awaitStore"
    /\ \E answer \in {MaybeSingle(store, queries[r][1])}
                     \cup {[data |-> Null, error |-> e] : e \in StoreErrors} :
          LET f == ExportFinish(request[r], answer)
          IN  /\ answers' = [answers EXCEPT ![r] = <<answer>>]
              /\ log' = [log EXCEPT ![r] = log[r] \o f.log]
              /\ reply' = [reply EXCEPT ![r] = f.reply]
    /\ pc' = [pc EXCEPT ![r] = "done"]
    /\ UNCHANGED <<env, store, request, userId, queries, modelCalls, arg, result>>


(***************************************************************************)
(* extractJson (index.ts 261-275).  Its two regular expressions are: three *)
(* backticks, the letters json in any case, white space, a group of any    *)
(* characters taken as short as possible, white space, three backticks;    *)
(* and the same without the letters and without the case folding.  exec    *)
(* returns the match a backtracking matcher finds first: the leftmost      *)
(* start; there the first white space as long as possible; then the group  *)
(* as short as possible.                                                   *)
(***************************************************************************)
\* the backtick character (which a TLA+ string cannot hold)
BackTick == "<backtick>"

Fence == <<BackTick, BackTick, BackTick>>
JsonOpener == Fence \o <<"j", "s", "o", "n">>

\* the case folding of the i flag, for the letters of the pattern
Lower(c) ==
    CASE c = "J" -> "j" [] c = "S" -> "s" [] c = "O" -> "o" [] c = "N" -> "n" [] OTHER -> c

\* the literal lit matches s at p
LiteralAt(s, p, lit, ignoreCase) ==
    /\ p + Len(lit) - 1 <= Len(s)
    /\ \A i \in 1..Len(lit) :
          IF ignoreCase THEN Lower(s[p + i - 1]) = Lower(lit[i]) ELSE s[p + i - 1] = lit[i]

\* s[i..j-1] is white space
AllSpace(s, i, j) == \A x \in i..(j - 1) : IsSpace(s[x])

\* white space and then a fence match s from e on
TailMatches(s, e) ==
    \E q \in e..(Len(s) - 2) : AllSpace(s, e, q) /\ LiteralAt(s, q, Fence, FALSE)

\* the ends (exclusive) the group may have when it starts at a
GroupEnds(s, a) == {e \in a..(Len(s) + 1) : TailMatches(s, e)}

\* where the first white space may stop, when it starts at i0, with the rest matching
SpaceEnds(s, i0) ==
    {a \in i0..(Len(s) + 1) : AllSpace(s, i0, a) /\ GroupEnds(s, a) # {}}

MatchStarts(s, opener, ignoreCase) ==
    {p \in 1..Len(s) :
        LiteralAt(s, p, opener, ignoreCase) /\ SpaceEnds(s, p + Len(opener)) # {}}

SetMin(S) == CHOOSE x \in S : \A y \in S : x <= y
SetMax(S) == CHOOSE x \in S : \A y \in S : x >= y

\* regex.exec(s): [found, group], group being capture 1
FenceExec(s, opener, ignoreCase) ==
    LET starts == MatchStarts(s, opener, ignoreCase)
    IN  IF starts = {} THEN [found |-> FALSE, group |-> <<>>]
        ELSE LET p == SetMin(starts)
                 a == SetMax(SpaceEnds(s, p + Len(opener)))
                 e == SetMin(GroupEnds(s, a))
             IN  [found |-> TRUE, group |-> SubSeq(s, a, e - 1)]

IndexesOf(s, c) == {i \in 1..Len(s) : s[i] = c}

\* extractJson with the two fence patterns tried in the other order
extractJsonAnyFenceFirst(s) ==
    LET fenceJson == FenceExec(s, JsonOpener, TRUE)
        fence == FenceExec(s, Fence, FALSE)
        opens == IndexesOf(s, "{")
        closes == IndexesOf(s, "}")
    IN  IF s = <<>> THEN Null
        ELSE IF fence.found /\ fence.group # <<>> THEN Str(Trim(fence.group))
        ELSE IF fenceJson.found /\ fenceJson.group # <<>> THEN Str(Trim(fenceJson.group))
        ELSE IF opens # {} /\ closes # {} /\ SetMax(closes) > SetMin(opens)
             THEN Str(SubSeq(s, SetMin(opens), SetMax(closes)))
             ELSE Null

\* a string, or Null
extractJson(s) ==
    LET fenceJson == FenceExec(s, JsonOpener, TRUE)
        fence == FenceExec(s, Fence, FALSE)
        opens == IndexesOf(s, "{")
        closes == IndexesOf(s, "}")
    IN  IF s = <<>> THEN Null
        ELSE IF fenceJson.found /\ fenceJson.group # <<>> THEN Str(Trim(fenceJson.group))
        ELSE IF fence.found /\ fence.group # <<>> THEN Str(Trim(fence.group))
        ELSE IF opens # {} /\ closes # {} /\ SetMax(closes) > SetMin(opens)
             THEN Str(SubSeq(s, SetMin(opens), SetMax(closes)))
             ELSE Null

\* JSON.parse for text over the letters, braces, backticks and white space the
\* model texts are made of: the only JSON value such text can spell is an
\* empty object; anything else throws a SyntaxError naming the offending
\* character
JsonParse(t) ==
    LET a == TrimStart(t)
        inner == IF a # <<>> /\ Head(a) = "{" THEN TrimStart(Tail(a)) ELSE <<>>
        after == IF inner # <<>> /\ Head(inner) = "}" THEN TrimStart(Tail(inner)) ELSE <<>>
        Unexpected(rest) ==
            IF rest = <<>> THEN [ok |-> FALSE, message |-> [msg |-> "Unexpected end of JSON input", at |-> <<>>]]
            ELSE [ok |-> FALSE, message |-> [msg |-> "Unexpected token in JSON", at |-> <<Head(rest)>>]]
    IN  IF a = <<>> \/ Head(a) # "{" THEN Unexpected(a)
        ELSE IF inner = <<>> \/ Head(inner) # "}" THEN Unexpected(inner)
        ELSE IF after # <<>> THEN Unexpected(after)
        ELSE [ok |-> TRUE, value |-> [t |-> "object", members |-> <<>>]]


(***************************************************************************)
(* POST /analyze-receipt                                                   *)
(***************************************************************************)
\* what req.file() resolves to: undefined, or the first file part
Uploads ==
    {Undefined,
     [t |-> "file", mimetype |-> "", chunks |-> <<<<137, 80>>, <<78>>>>]}

\* Buffer.concat(buffers)
RECURSIVE Concat(_)
Concat(chunks) == IF chunks = <<>> THEN <<>> ELSE Head(chunks) \o Concat(Tail(chunks))

\* a || b
Or(a, b) == IF Truthy(a) THEN a ELSE b

\* the generateContent call: the fixed prompt and the image part, which holds
\* the base64 text of the bytes and the media type
GenerateContentCall(data) ==
    [model |-> "gemini-2.5-flash",
     prompt |-> "You are given an image of a receipt. ...",
     inlineData |-> Concat(data.chunks),
     mimeType |-> IF data.mimetype = "" THEN "image/jpeg" ELSE data.mimetype,
     responseMimeType |-> "application/json"]

\* the errors generateContent may throw
ModelErrors == {"503 model overloaded"}

\* response.text of the answers the model may give
ModelTexts ==
    {Undefined,
     Str(<<"{", "}">>),
     Str(<<"x">>),
     Str(<<"{", "x", "}">>),
     Str(Fence \o <<"j", "s", "o", "n", "\n", "{", "}", "\n">> \o Fence),
     Str(JsonOpener \o Fence)}

AnalyzeRequest(file) == [kind |-> "analyze", file |-> file]

\* (as it would be with the model called before the key is looked at)
AnalyzeBeginCallFirst(req, e) ==
    LET data == req.file
    IN  IF data = Undefined
        THEN [pc |-> "done", modelCalls |-> <<>>,
              reply |-> SendJson(400,
                  [error |-> "No file provided. Send multipart form with an image file."])]
        ELSE [pc |-> "awaitModel", modelCalls |-> <<GenerateContentCall(data)>>,
              reply |-> NoReply]

\* the handler up to its await of the model (index.ts 184-239)
AnalyzeBegin(req, e) ==
    LET data == req.file
        apiKey == Or(e.GEMINI_API_KEY, e.GOOGLE_API_KEY)
    IN  IF data = Undefined
        THEN [pc |-> "done", modelCalls |-> <<>>,
              reply |-> SendJson(400,
                  [error |-> "No file provided. Send multipart form with an image file."])]
        ELSE IF ~Truthy(apiKey)
        THEN [pc |-> "done", modelCalls |-> <<>>,
              reply |-> SendJson(500,
                  [error |-> "Server missing GEMINI_API_KEY environment variable"])]
        ELSE [pc |-> "awaitModel", modelCalls |-> <<GenerateContentCall(data)>>,
              reply |-> NoReply]

\* the catch block (index.ts 251-257)
AnalyzeCatch(message) ==
    [log |-> <<LogEntry("error", "", message)>>,
     reply |-> SendJson(500, [error |-> "Failed to analyze receipt", details |-> message])]

\* the handler from the model's answer on (index.ts 240-257)
AnalyzeFinish(answer) ==
    IF ~answer.ok THEN AnalyzeCatch(answer.message)
    ELSE LET text == IF answer.text.t \in {"null", "undefined"} THEN Str(<<>>) ELSE answer.text
             jsonText == extractJson(text.s)
             parsed == JsonParse(jsonText.s)
         IN  IF ~Truthy(jsonText)
             THEN [log |-> <<>>,
                   reply |-> SendJson(502, [error |-> "Model did not return JSON", raw |-> text.s])]
             ELSE IF ~parsed.ok THEN AnalyzeCatch(parsed.message)
             ELSE [log |-> <<>>, reply |-> SendJson(200, [json |-> parsed.value])]

AnalyzeStart(r) ==
    /\ pc[r] = "idle"
    /\ \E file \in Uploads :
          LET req == AnalyzeRequest(file)
              b == AnalyzeBegin(req, env)
          IN  /\ request' = [request EXCEPT ![r] = req]
              /\ pc' = [pc EXCEPT ![r] = b.pc]
              /\ modelCalls' = [modelCalls EXCEPT ![r] = b.modelCalls]
              /\ reply' = [reply EXCEPT ![r] = b.reply]
    /\ userId' = [userId EXCEPT ![r] = Null]
    /\ queries' = [queries EXCEPT ![r] = <<>>]
    /\ log' = [log EXCEPT ![r] = <<>>]
    /\ UNCHANGED <<env, store, answers, arg, result>>

AnalyzeResume(r) ==
    /\ pc[r] = "awaitModel"
    /\ \E answer \in {[ok |-> TRUE, text |-> t] : t \in ModelTexts}
                     \cup {[ok |-> FALSE, message |-> [msg |-> m, at |-> <<>>]] : m \in ModelErrors} :
          LET f == AnalyzeFinish(answer)
          IN  /\ answers' = [answers EXCEPT ![r] = <<answer>>]
              /\ log' = [log EXCEPT ![r] = log[r] \o f.log]
              /\ reply' = [reply EXCEPT ![r] = f.reply]
    /\ pc' = [pc EXCEPT ![r] = "done"]
    /\ UNCHANGED <<env, store, request, userId, queries, modelCalls, arg, result>>

(***************************************************************************)
(* The server: NumRequests requests arrive and are handled concurrently,    *)
(* each handler running to its await in one step.  The handlers share no   *)
(* state but env and the store, which they only read.                      *)
(***************************************************************************)
NoRequest == [kind |-> "none"]
NotRun == [t |-> "not run"]

Init ==
    /\ env \in Envs
    /\ store \in Stores
    /\ pc = [r \in Requests |-> "idle"]
    /\ request = [r \in Requests |-> NoRequest]
    /\ userId = [r \in Requests |-> Null]
    /\ queries = [r \in Requests |-> <<>>]
    /\ modelCalls = [r \in Requests |-> <<>>]
    /\ answers = [r \in Requests |-> <<>>]
    /\ reply = [r \in Requests |-> NoReply]
    /\ log = [r \in Requests |-> <<>>]
    /\ arg = NotRun
    /\ result = NotRun

Next ==
    \E r \in Requests :
        \/ ExportStart(r)
        \/ ExportResume(r)
        \/ AnalyzeStart(r)
        \/ AnalyzeResume(r)

Spec == Init /\ [][Next]_vars

\* the same, with the store and the model answering every call made to them
FairSpec ==
    Spec /\ \A r \in Requests : WF_vars(ExportResume(r)) /\ WF_vars(AnalyzeResume(r))


(***************************************************************************)
(* Helper specifications: a helper applied once to an input drawn from a   *)
(* bounded set.                                                            *)
(***************************************************************************)
HelperInit ==
    /\ env = FullEnv
    /\ store = {}
    /\ pc = [r \in Requests |-> "idle"]
    /\ request = [r \in Requests |-> NoRequest]
    /\ userId = [r \in Requests |-> Null]
    /\ queries = [r \in Requests |-> <<>>]
    /\ modelCalls = [r \in Requests |-> <<>>]
    /\ answers = [r \in Requests |-> <<>>]
    /\ reply = [r \in Requests |-> NoReply]
    /\ log = [r \in Requests |-> <<>>]
    /\ result = NotRun

HelperUnchanged ==
    UNCHANGED <<env, store, pc, request, userId, queries, modelCalls, answers, reply, log, arg>>

\* the token gate: every header shape against every secret setting
GateHeaders ==
    AuthHeaders
    \cup {Str(<<>>), Str(BearerPrefix), Str(BearerPrefix \o <<"x">>),
          Str(BearerPrefix \o <<" ", "jwt-u1", " ">>),
          Str(<<"B", "e", "a", "r", "e", "r", "jwt-u1">>),
          Str(<<"B", "a", "s", "i", "c", " ", "jwt-u1">>)}
    \cup {Str(BearerPrefix \o <<n>>) : n \in JwtNames}

GateSecrets == {Undefined, Str(<<>>), Str(Secret1), Str(Secret2)}

InitGate ==
    /\ HelperInit
    /\ arg \in [headers : {[authorization |-> h] : h \in GateHeaders}, secret : GateSecrets]

ApplyGate ==
    /\ result = NotRun
    /\ result' = ExportBegin([kind |-> "export", headers |-> arg.headers, params |-> [id |-> Str(IdA)]],
                             [FullEnv EXCEPT !.SUPABASE_JWT_SECRET = arg.secret])
    /\ HelperUnchanged

SpecGate == InitGate /\ [][ApplyGate]_vars


\* extractJson: texts made of at most MaxSegs pieces
MaxSegs == 5

TextPieces ==
    {Fence, <<BackTick>>, <<"j", "s", "o", "n">>, <<"J", "s", "o", "N">>, <<" ">>, <<"{">>, <<"}">>,
     <<"x">>}

RECURSIVE TextsOf(_)
TextsOf(n) ==
    IF n = 0 THEN {<<>>}
    ELSE LET shorter == TextsOf(n - 1)
         IN  shorter \cup {t \o piece : t \in shorter, piece \in TextPieces}

InitExtract ==
    /\ HelperInit
    /\ arg \in TextsOf(MaxSegs)

ApplyExtractJson ==
    /\ result = NotRun
    /\ result' = extractJson(arg)
    /\ HelperUnchanged

SpecExtract == InitExtract /\ [][ApplyExtractJson]_vars

\* csvEscape: strings of at most MaxFieldLen characters
MaxFieldLen == 3

FieldChars == {"a", " ", ",", "\"", "\n", "\r"}

RECURSIVE StringsOf(_, _)
StringsOf(chars, n) ==
    IF n = 0 THEN {<<>>}
    ELSE LET shorter == StringsOf(chars, n - 1)
         IN  shorter \cup {t \o <<c>> : t \in shorter, c \in chars}

InitEscape ==
    /\ HelperInit
    /\ arg \in StringsOf(FieldChars, MaxFieldLen)

ApplyCsvEscape ==
    /\ result = NotRun
    /\ result' = Str(csvEscape(Str(arg)))
    /\ HelperUnchanged

SpecEscape == InitEscape /\ [][ApplyCsvEscape]_vars

\* formatNumber: null, undefined, strings of at most MaxAmountLen characters,
\* the text Infinity, and numbers small and large
MaxAmountLen == 3

AmountChars == {"0", "1", "5", ".", "-", " ", "a", ","}

AmountNumbers ==
    {NaN, Inf(FALSE), Inf(TRUE)}
    \cup {Fin(neg, thou, err) : neg \in BOOLEAN, thou \in {0, 4, 5, 125, 995, 1005, 12345, 12500},
                                err \in {-1, 0, 1}}
    \cup {Big(neg, coef, e10) : neg \in BOOLEAN, coef \in {1, 9}, e10 \in {20, 21}}

AmountInputs ==
    {Null, Undefined, Str(InfinityText), Str(<<"-">> \o InfinityText)}
    \cup {Str(t) : t \in StringsOf(AmountChars, MaxAmountLen)}
    \cup {Num(x) : x \in AmountNumbers}

InitFormat ==
    /\ HelperInit
    /\ arg \in AmountInputs

ApplyFormatNumber ==
    /\ result = NotRun
    /\ result' = Str(formatNumber(arg))
    /\ HelperUnchanged

SpecFormat == InitFormat /\ [][ApplyFormatNumber]_vars

\* the CSV build: receipts as the store returns them, with at most MaxItems items
MaxItems == 2

Merchants ==
    {Null, Str(<<"C", "a", "f", "e">>), Str(<<"A", ",", " ", "\"", "B", "\"">>),
     Str(<<"a", "\n", "b">>), Str(<<"a", "\r", "b">>)}

ItemPool ==
    {Item(Str(<<"T", "e", "a">>), Num(Fin(FALSE, 2000, 0)), Num(Fin(FALSE, 3500, 0))),
     Item(Str(<<"A", ",", "B">>), Null, Str(<<"1", ".", "0", "0", "5">>)),
     Item(Null, Null, Null)}

RECURSIVE ItemLists(_)
ItemLists(n) ==
    IF n = 0 THEN {<<>>}
    ELSE LET shorter == ItemLists(n - 1)
         IN  shorter \cup {Append(l, i) : l \in shorter, i \in ItemPool}

ReceiptsReturned ==
    {[Select(RichRow(IdA, U1)) EXCEPT !.merchant = m, !.total = t, !.receipt_items = items] :
        m \in Merchants,
        t \in {Null, Num(Fin(FALSE, 12500, 0))},
        items \in {Null} \cup {Array(l) : l \in ItemLists(MaxItems)}}

InitBuild ==
    /\ HelperInit
    /\ arg \in ReceiptsReturned

ApplyBuildCsv ==
    /\ result = NotRun
    /\ result' = Str(BuildCsv(arg))
    /\ HelperUnchanged

SpecBuild == InitBuild /\ [][ApplyBuildCsv]_vars

(***************************************************************************)
(* Properties.                                                             *)
(***************************************************************************)
IsExport(r) == request[r].kind = "export"
IsAnalyze(r) == request[r].kind = "analyze"

\* the rows of the store with this id
RowsWithId(id) == {row \in store : row.id = id}

\* the subjects of the tokens a header text holds
SubjectsNamedIn(h) ==
    IF h.t # "string" THEN {}
    ELSE {JwtTable[n].payload.sub : n \in {m \in JwtNames : Has(h.s, m) /\ JwtTable[m].payload.t = "object"}}

\* the id has the shape the route asks for: 32 to 36 hexadecimal digits and hyphens
WellFormedId(id) ==
    /\ Len(id) \in MinIdLen..MaxIdLen
    /\ \A i \in 1..Len(id) :
          id[i] \in {"0", "1", "2", "3", "4", "5", "6", "7", "8", "9", "a", "b", "c", "d", "e",
                     "f", "A", "B", "C", "D", "E", "F", "-"}

\* C1: a 200 export response carries the CSV of a row of the store with the
\* requested id whose owner (user_id) is the subject of the request's token,
\* and of no row owned by anyone else; and every store query of the request
\* is the one query filtered by both the id and that owner.
C1_ExportOnlyToOwner ==
    \A r \in Requests :
        IsExport(r) =>
            /\ Len(queries[r]) <= 1
            /\ \A i \in 1..Len(queries[r]) :
                  /\ \E j \in 1..Len(queries[r][i].eq) :
                        queries[r][i].eq[j] = <<"id", request[r].params.id.s>>
                  /\ \E j \in 1..Len(queries[r][i].eq) :
                        /\ queries[r][i].eq[j][1] = "user_id"
                        /\ Str(queries[r][i].eq[j][2]) \in SubjectsNamedIn(request[r].headers.authorization)
                        /\ Str(queries[r][i].eq[j][2]) = userId[r]
            /\ reply[r].status = 200 =>
                  /\ Len(queries[r]) = 1
                  /\ \E row \in RowsWithId(request[r].params.id.s) :
                        /\ Str(row.user_id) \in SubjectsNamedIn(request[r].headers.authorization)
                        /\ reply[r].body = [csv |-> BuildCsv(Select(row))]
                  /\ \A row \in store :
                        reply[r].body = [csv |-> BuildCsv(Select(row))]
                            => Str(row.user_id) \in SubjectsNamedIn(request[r].headers.authorization)

\* C1 witness: one caller got the CSV of their receipt while another caller,
\* asking for the same id, got 404
C1_Witness ==
    \E r1, r2 \in Requests :
        /\ IsExport(r1) /\ IsExport(r2)
        /\ request[r1].params.id = request[r2].params.id
        /\ userId[r1] = Str(U1) /\ userId[r2] = Str(U2)
        /\ reply[r1].status = 200
        /\ reply[r2].status = 404

\* the store answered request r's query, and without an error
StoreAnswered(r) ==
    /\ pc[r] = "done"
    /\ answers[r] # <<>>
    /\ answers[r][1].error = ""

\* the caller of r owns no row with the id asked for
NotOwned(r) ==
    \A row \in RowsWithId(request[r].params.id.s) : Str(row.user_id) # userId[r]

LacksBearer(h) == h.t # "string" \/ ~StartsWith(h.s, <<"B", "e", "a", "r", "e", "r", " ">>)

\* C3: an export request whose Authorization header is absent or does not
\* begin with "Bearer " is answered 401 as soon as it is handled, and no store
\* query is ever issued for it, whatever the id, the store and the secret.
C3_NoBearerNoStoreAccess ==
    \A r \in Requests :
        (IsExport(r) /\ LacksBearer(request[r].headers.authorization)) =>
            /\ pc[r] = "done"
            /\ reply[r].status = 401
            /\ queries[r] = <<>>

\* C3 witness: a request with a well-formed id and a header that names a good
\* token under a lower-case scheme was answered, on a server with no secret
C3_Witness ==
    \E r \in Requests :
        /\ IsExport(r)
        /\ request[r].headers.authorization = Str(<<"b", "e", "a", "r", "e", "r", " ", "jwt-u1">>)
        /\ WellFormedId(request[r].params.id.s)
        /\ RowsWithId(request[r].params.id.s) # {}
        /\ reply[r].status = 401

\* the request carries a token that verifies under the configured secret
CarriesValidToken(r) ==
    /\ env.SUPABASE_JWT_SECRET = Str(Secret1)
    /\ request[r].headers.authorization
          \in {Str(<<"B", "e", "a", "r", "e", "r", " ", "jwt-u1">>),
               Str(<<"B", "e", "a", "r", "e", "r", " ", "jwt-u2">>)}

\* C4: an export request whose id is malformed never causes a store query,
\* and with a valid token it is answered 400.
C4_BadIdNoStoreAccess ==
    \A r \in Requests :
        (IsExport(r) /\ ~WellFormedId(request[r].params.id.s)) =>
            /\ queries[r] = <<>>
            /\ pc[r] = "done"
            /\ CarriesValidToken(r) => reply[r].status = 400

\* C4 witness: a valid token with an id one character too long was answered 400
C4_Witness ==
    \E r \in Requests :
        /\ IsExport(r)
        /\ CarriesValidToken(r)
        /\ Len(request[r].params.id.s) = MaxIdLen + 1
        /\ reply[r].status = 400


\* the token text of a bearer header
BearerToken(h) == Trim(SubSeq(h.s, 8, Len(h.s)))

\* the non-empty text subjects a bearer header's token proves under a secret:
\* signed with that secret, not expired, its payload an object with such a sub
ProvenSubjects(h, secret) ==
    {JwtTable[n].payload.sub :
        n \in {m \in JwtNames :
                 /\ BearerToken(h) = <<m>>
                 /\ JwtTable[m].key = secret.s
                 /\ ~JwtTable[m].expired
                 /\ JwtTable[m].payload.t = "object"
                 /\ JwtTable[m].payload.sub.t = "string"
                 /\ JwtTable[m].payload.sub.s # <<>>}}

SecretConfigured(secret) == secret.t = "string" /\ secret.s # <<>>

\* C5: for a header that begins with "Bearer ": with no secret configured the
\* response is 500 (server misconfigured) whatever the token; with a secret, a
\* token that proves no non-empty text subject gets 401; and the handler goes
\* past the gate exactly with a subject the token proves.
C5_GateOutcomes ==
    (result # NotRun /\ ~LacksBearer(arg.headers.authorization)) =>
        LET h == arg.headers.authorization
            proven == IF SecretConfigured(arg.secret) THEN ProvenSubjects(h, arg.secret) ELSE {}
        IN  /\ ~SecretConfigured(arg.secret) =>
                  /\ result.pc = "done"
                  /\ result.reply =
                        SendJson(500, [error |-> "Server missing SUPABASE_JWT_SECRET env variable"])
            /\ (SecretConfigured(arg.secret) /\ proven = {}) =>
                  /\ result.pc = "done"
                  /\ result.reply.status = 401
                  /\ result.reply.body.error \in {"Invalid or expired token",
                                                  "Invalid token: sub claim missing"}
            /\ result.userId # Null <=> proven # {}
            /\ result.userId # Null => (result.userId \in proven /\ result.queries # <<>>)
            /\ result.userId = Null => result.queries = <<>>

\* C5 witness: a token signed with another key met a configured secret
C5_Witness ==
    /\ result # NotRun
    /\ arg.headers.authorization = Str(<<"B", "e", "a", "r", "e", "r", " ", "jwt-forged">>)
    /\ arg.secret = Str(Secret1)
    /\ result.reply.status = 401


\* the model answered request r with this text (response.text ?? "")
ModelText(r) ==
    IF answers[r][1].text.t = "string" THEN answers[r][1].text.s ELSE <<>>

ModelAnswered(r) == IsAnalyze(r) /\ pc[r] = "done" /\ answers[r] # <<>> /\ answers[r][1].ok

ModelFailed(r) == IsAnalyze(r) /\ pc[r] = "done" /\ answers[r] # <<>> /\ ~answers[r][1].ok

StoreFailed(r) == IsExport(r) /\ pc[r] = "done" /\ answers[r] # <<>> /\ answers[r][1].error # ""

\* no parseable JSON value is obtained from the text: nothing is extracted,
\* or what is extracted does not parse
NoJsonIn(text) ==
    \/ extractJson(text) = Null
    \/ ~JsonParse(extractJson(text).s).ok

\* C6: when the model call succeeds and no parseable JSON value is obtained
\* from its text, the response is 502 and its body carries that text as raw.
C6_NonJsonIs502 ==
    \A r \in Requests :
        (ModelAnswered(r) /\ NoJsonIn(ModelText(r))) =>
            /\ reply[r].status = 502
            /\ reply[r].body = [error |-> "Model did not return JSON", raw |-> ModelText(r)]

\* the fields of an error response's body besides the message
ExtraFields(r) == DOMAIN reply[r].body \ {"error"}

IsErrorReply(r) == reply[r].status >= 400

\* the handler wrote this detail to the server log
Logged(r, detail) == \E i \in 1..Len(log[r]) : log[r][i].err = detail

\* C7 as stated: the responses for a store error and for a failed analysis
\* carry the generic message only, the detail being logged; of the error
\* responses only the 502 carries text that came from upstream.
C7_OnlyGenericMessages ==
    \A r \in Requests :
        /\ StoreFailed(r) =>
              (reply[r].body = [error |-> "Database query failed"] /\ Logged(r, answers[r][1].error))
        /\ ModelFailed(r) =>
              (reply[r].body = [error |-> "Failed to analyze receipt"]
               /\ Logged(r, answers[r][1].message))
        /\ (IsErrorReply(r) /\ ExtraFields(r) # {}) => reply[r].status = 502

\* C7 amended: the response for a store error carries the generic message
\* only, the detail being logged; the 500 response for a failed analysis
\* carries the generic message and, as details, the message of the error
\* caught (the provider's, or JSON.parse's), which is also logged; of the
\* error responses only that one (details) and the 502 (raw, the model's
\* text) carry anything besides the message.
C7_Amended ==
    \A r \in Requests :
        /\ StoreFailed(r) =>
              /\ reply[r] = SendJson(500, [error |-> "Database query failed"])
              /\ Logged(r, answers[r][1].error)
        /\ ModelFailed(r) =>
              /\ reply[r] = SendJson(500, [error |-> "Failed to analyze receipt",
                                           details |-> answers[r][1].message])
              /\ Logged(r, answers[r][1].message)
        /\ (IsErrorReply(r) /\ ExtraFields(r) # {}) =>
              \/ /\ reply[r].status = 502
                 /\ ExtraFields(r) = {"raw"}
                 /\ ModelAnswered(r)
                 /\ reply[r].body.raw = ModelText(r)
              \/ /\ reply[r].status = 500
                 /\ IsAnalyze(r)
                 /\ ExtraFields(r) = {"details"}
                 /\ Logged(r, reply[r].body.details)
                 /\ \/ ModelFailed(r)
                    \/ /\ ModelAnswered(r)
                       /\ extractJson(ModelText(r)) # Null
                       /\ ~JsonParse(extractJson(ModelText(r)).s).ok

\* C7 witness: the store failed one request and the model failed another
C7_Witness ==
    \E r1, r2 \in Requests :
        /\ StoreFailed(r1) /\ reply[r1].status = 500
        /\ ModelFailed(r2) /\ reply[r2].status = 500

\* ---- extractJson ----

\* the closing fences of s at or after position from
ClosingFences(s, from) == {q \in from..(Len(s) - 2) : LiteralAt(s, q, Fence, FALSE)}

\* the first fenced block of s opened by opener: where it opens and its
\* trimmed inner content (everything between the opener and the next fence)
FencedBlock(s, opener, ignoreCase) ==
    LET opens == {p \in 1..Len(s) : /\ LiteralAt(s, p, opener, ignoreCase)
                                    /\ ClosingFences(s, p + Len(opener)) # {}}
    IN  IF opens = {} THEN [exists |-> FALSE, at |-> 0, inner |-> <<>>]
        ELSE LET p == SetMin(opens)
                 q == SetMin(ClosingFences(s, p + Len(opener)))
             IN  [exists |-> TRUE, at |-> p, inner |-> Trim(SubSeq(s, p + Len(opener), q - 1))]

JsonBlock(s) == FencedBlock(s, JsonOpener, TRUE)
AnyBlock(s) == FencedBlock(s, Fence, FALSE)

\* the first { occurs strictly before the last }
BracePair(s) ==
    /\ IndexesOf(s, "{") # {} /\ IndexesOf(s, "}") # {}
    /\ SetMin(IndexesOf(s, "{")) < SetMax(IndexesOf(s, "}"))

BraceSpan(s) == SubSeq(s, SetMin(IndexesOf(s, "{")), SetMax(IndexesOf(s, "}")))

FieldBreaks == {",", "\"", "\n", "\r"}

\* the text after an opening quote, read up to the closing quote: a doubled
\* quote stands for one quote, and nothing may follow the closing quote
RECURSIVE QuotedField(_)
QuotedField(rest) ==
    IF rest = <<>> THEN [ok |-> FALSE, value |-> <<>>]
    ELSE IF Head(rest) # "\""
         THEN LET more == QuotedField(Tail(rest))
              IN  [ok |-> more.ok, value |-> IF more.ok THEN <<Head(rest)>> \o more.value ELSE <<>>]
    ELSE IF Len(rest) = 1 THEN [ok |-> TRUE, value |-> <<>>]
    ELSE IF rest[2] = "\""
         THEN LET more == QuotedField(SubSeq(rest, 3, Len(rest)))
              IN  [ok |-> more.ok, value |-> IF more.ok THEN <<"\"">> \o more.value ELSE <<>>]
    ELSE [ok |-> FALSE, value |-> <<>>]

\* text read as one CSV field: ok tells whether the whole text is one field
ParseCsvField(text) ==
    IF text # <<>> /\ Head(text) = "\"" THEN QuotedField(Tail(text))
    ELSE IF \E i \in 1..Len(text) : text[i] \in FieldBreaks THEN [ok |-> FALSE, value |-> <<>>]
    ELSE [ok |-> TRUE, value |-> text]

\* C9 as stated: csvEscape(s) read back as one CSV field is s, for every
\* string s; the output is s in quotes with its quotes doubled exactly when s
\* holds a quote, a comma or a line feed, and is s otherwise
C9_RoundTrip ==
    result # NotRun =>
        /\ ParseCsvField(result.s) = [ok |-> TRUE, value |-> arg]
        /\ IF \E i \in 1..Len(arg) : arg[i] \in {"\"", ",", "\n"}
           THEN result.s = <<"\"">> \o DoubleQuotes(arg) \o <<"\"">>
           ELSE result.s = arg

\* ---- formatNumber ----

\* digits, a point, two digits; a minus sign may come first
IsTwoDecimalNumeral(t) ==
    LET u == IF t # <<>> /\ Head(t) = "-" THEN Tail(t) ELSE t
    IN  /\ Len(u) >= 4
        /\ u[Len(u) - 2] = "."
        /\ \A i \in 1..Len(u) : i # Len(u) - 2 => IsDigit(u[i])

\* the numeric literals: digits with an optional fraction, a fraction alone, or
\* the word Infinity, after an optional sign, white space around them ignored
IsNumericLiteral(t) ==
    LET a == Trim(t)
        u == IF a # <<>> /\ Head(a) \in {"-", "+"} THEN Tail(a) ELSE a
        points == IndexesOf(u, ".")
    IN  \/ u = InfinityText
        \/ /\ \E i \in 1..Len(u) : IsDigit(u[i])
           /\ \A i \in 1..Len(u) : IsDigit(u[i]) \/ u[i] = "."
           /\ Cardinality(points) <= 1

\* a value that does not parse as a number
Unparseable(v) ==
    \/ v.t = "string" /\ Trim(v.s) # <<>> /\ ~IsNumericLiteral(v.s)
    \/ v.t = "number" /\ v.x = NaN

\* C10 as stated: formatNumber returns the empty string or a decimal numeral
\* with exactly two digits after the point, no separator and no exponent; and
\* the empty string for null, undefined, the empty string and every value
\* that does not parse as a number
C10_TwoDecimalsOrEmpty ==
    result # NotRun =>
        /\ result.s = <<>> \/ IsTwoDecimalNumeral(result.s)
        /\ (arg \in {Null, Undefined, Str(<<>>)} \/ Unparseable(arg)) => result.s = <<>>

\* ---- the CSV document ----

\* A CSV text read into records of fields: a comma ends a field; a line feed,
\* a carriage return or the two together end a record; a field that opens
\* with a quote runs to its closing quote, a doubled quote standing for one.

\* position i of text lies inside a quoted field
InsideQuotes(text, i) == Cardinality({j \in 1..(i - 1) : text[j] = "\""}) % 2 = 1

\* the k-th smallest member of a set of positions
NthOf(S, k) == CHOOSE b \in S : Cardinality({x \in S : x < b}) = k - 1

\* where the records of text end
RecordBreaks(text) ==
    {i \in 1..Len(text) :
        /\ text[i] \in {"\n", "\r"}
        /\ ~InsideQuotes(text, i)
        /\ ~(text[i] = "\n" /\ i > 1 /\ text[i - 1] = "\r")}

\* where the fields of a record end
FieldBreaksOf(record) == {i \in 1..Len(record) : record[i] = "," /\ ~InsideQuotes(record, i)}

\* the pieces of text between the breaks; a line feed right after a carriage
\* return belongs to the break
PiecesOf(text, breaks) ==
    LET n == Cardinality(breaks)
        EndOf(k) == IF k = n + 1 THEN Len(text) + 1 ELSE NthOf(breaks, k)
        StartOf(k) ==
            IF k = 1 THEN 1
            ELSE LET b == NthOf(breaks, k - 1)
                 IN  IF text[b] = "\r" /\ b < Len(text) /\ text[b + 1] = "\n" THEN b + 2 ELSE b + 1
    IN  [k \in 1..(n + 1) |-> SubSeq(text, StartOf(k), EndOf(k) - 1)]

\* a doubled quote read as one
RECURSIVE HalveQuotes(_)
HalveQuotes(t) ==
    IF t = <<>> THEN <<>>
    ELSE IF Head(t) = "\"" /\ Len(t) >= 2 /\ t[2] = "\""
         THEN <<"\"">> \o HalveQuotes(SubSeq(t, 3, Len(t)))
         ELSE <<Head(t)>> \o HalveQuotes(Tail(t))

\* the value of a field as written
FieldValue(f) ==
    IF Len(f) >= 2 /\ Head(f) = "\"" /\ f[Len(f)] = "\""
    THEN HalveQuotes(SubSeq(f, 2, Len(f) - 1))
    ELSE f

RecordsOf(text) ==
    LET lines == PiecesOf(text, RecordBreaks(text))
    IN  [k \in 1..Len(lines) |->
            LET fields == PiecesOf(lines[k], FieldBreaksOf(lines[k]))
            IN  [j \in 1..Len(fields) |-> FieldValue(fields[j])]]

MetadataLabels ==
    << <<"M", "e", "r", "c", "h", "a", "n", "t">>,
       <<"P", "u", "r", "c", "h", "a", "s", "e", " ", "D", "a", "t", "e">>,
       <<"T", "o", "t", "a", "l">>,
       <<"C", "u", "r", "r", "e", "n", "c", "y">>,
       <<"C", "a", "t", "e", "g", "o", "r", "y">>,
       <<"R", "e", "c", "e", "i", "p", "t", " ", "I", "D">> >>

ItemsHeading == << <<"I", "t", "e", "m", "s">> >>

ItemsHeader ==
    << <<"N", "a", "m", "e">>, <<"Q", "u", "a", "n", "t", "i", "t", "y">>,
       <<"P", "r", "i", "c", "e">> >>

\* the line items of a receipt, none when the collection is missing
ItemsOf(data) == IF data.receipt_items.t = "array" THEN data.receipt_items.a ELSE <<>>

\* the text a cell shows for a value
CellText(v) == IF v.t \in {"null", "undefined"} THEN <<>> ELSE v.s

\* C11: the exported CSV of a receipt the store returned consists of the six
\* metadata records (Merchant, Purchase Date, Total, Currency, Category,
\* Receipt ID) in that order, a blank line, the line Items, the line
\* Name,Quantity,Price, and then exactly one data row per line item in the
\* order the store returned them; with no items, or no item collection, the
\* document ends with the Name,Quantity,Price line
C11_CsvLayout ==
    result # NotRun =>
        LET records == RecordsOf(result.s)
            items == ItemsOf(arg)
        IN  /\ Len(records) = 9 + Len(items)
            /\ \A i \in 1..6 : Len(records[i]) = 2 /\ records[i][1] = MetadataLabels[i]
            /\ records[7] = << <<>> >>
            /\ records[8] = ItemsHeading
            /\ records[9] = ItemsHeader
            /\ \A i \in 1..Len(items) :
                  /\ Len(records[9 + i]) = 3
                  /\ records[9 + i][1] = CellText(items[i].name)

\* ---- the life of a request ----

\* how far a request has come: 0 not started, 1 waiting for its collaborator
\* (an export authenticated, its id validated, its query issued), 2 answered
Progress(r) == CASE pc[r] = "idle" -> 0 [] pc[r] \in {"awaitStore", "awaitModel"} -> 1 [] OTHER -> 2

Waiting(r) == pc[r] \in {"awaitStore", "awaitModel"}

Terminal(r) == pc[r] = "done"

\* the analyze handler may not call the model for this request in this environment
MayNotCallModel(r) ==
    \/ request[r].file = Undefined
    \/ ~Truthy(Or(env.GEMINI_API_KEY, env.GOOGLE_API_KEY))

\* a response is sent exactly when the request ends; a request makes at most
\* one call, of its own kind, and gets at most one answer to it
OneCallOneResponse ==
    \A r \in Requests :
        /\ Terminal(r) <=> reply[r] # NoReply
        /\ Len(queries[r]) + Len(modelCalls[r]) <= 1
        /\ Len(answers[r]) <= Len(queries[r]) + Len(modelCalls[r])
        /\ IsExport(r) => /\ modelCalls[r] = <<>>
                          /\ pc[r] # "awaitModel"
                          /\ Waiting(r) => /\ Truthy(userId[r])
                                           /\ IdShapeOk(request[r].params.id.s)
                                           /\ Len(queries[r]) = 1
                          /\ (Terminal(r) /\ reply[r].status \in {200, 404}) =>
                                 Len(queries[r]) = 1 /\ Len(answers[r]) = 1
        /\ IsAnalyze(r) => /\ queries[r] = <<>>
                           /\ pc[r] # "awaitStore"
                           /\ Waiting(r) => Len(modelCalls[r]) = 1
                           /\ MayNotCallModel(r) => modelCalls[r] = <<>>

\* a request only moves forward; once a call is made no other follows, and
\* once a response is sent it stands
ForwardOnly ==
    \A r \in Requests :
        /\ Progress(r)' >= Progress(r)
        /\ queries[r] # <<>> => queries'[r] = queries[r]
        /\ modelCalls[r] # <<>> => modelCalls'[r] = modelCalls[r]
        /\ answers[r] # <<>> => answers'[r] = answers[r]
        /\ reply[r] # NoReply => reply'[r] = reply[r]
        /\ Terminal(r) => request'[r] = request[r]

\* C12: under any interleaving of concurrent requests, each export request
\* only advances (start, authenticated and id validated with its query
\* issued, fetched, sent) or leaves through a failure exit, sends exactly one
\* response and issues at most one store query; each analyze request sends
\* exactly one response and issues at most one model call, none without a
\* file or without an API key; no call is retried; and when the collaborator
\* answers, every request reaches a terminal outcome
C12_RequestLifecycle ==
    /\ []OneCallOneResponse
    /\ [][ForwardOnly]_vars
    /\ \A r \in Requests : Waiting(r) ~> Terminal(r)

\* C12 witness: an export has been answered with the document after its one
\* query while an analysis, started meanwhile, waits on its one model call
C12_Witness ==
    \E r1, r2 \in Requests :
        /\ IsExport(r1) /\ Terminal(r1) /\ reply[r1].status = 200
        /\ Len(queries[r1]) = 1 /\ Len(answers[r1]) = 1
        /\ IsAnalyze(r2) /\ pc[r2] = "awaitModel" /\ Len(modelCalls[r2]) = 1


====
